---- MODULE Spec2Model ----
(***************************************************************************)
(* prefix_tools: PrefixSum1D<T> and DiffArray1D<T> (prefix_tools.hpp).     *)
(*                                                                         *)
(* A std::vector<T> is a sequence; C++ index i is TLA+ index i+1.  T is    *)
(* instantiated with the integers; the element values and the number of    *)
(* operations are small enough that no fixed-width type would overflow.    *)
(* An index outside a vector is undefined behaviour: a read or write there *)
(* either ends the program ("crashed") or touches memory that is not part  *)
(* of the vector.                                                          *)
(***************************************************************************)
EXTENDS Integers, Sequences, FiniteSets, TLC

VARIABLES
  prefix_,    \* PrefixSum1D::prefix_
  values,     \* the sequence handed to the latest PrefixSum1D::build
  prevLen,    \* size() just before the latest build, -1 before any build
  psRet,      \* the latest range_sum call and the value it returned
  psStatus,   \* "ok", or "crashed" once a range_sum read outside prefix_
  n_,         \* DiffArray1D::n_
  diff_,      \* DiffArray1D::diff_
  status,     \* "ok", or "crashed" once a range_add wrote outside diff_
  applied,    \* the range_add calls made since the latest reset
  wasReset,   \* reset(n) has been called (by the constructor or directly)
  lastOp,     \* the latest DiffArray1D call and its arguments
  ret         \* what the latest DiffArray1D call returned (<<>> for void)

vars == <<prefix_, values, prevLen, psRet, psStatus,
          n_, diff_, status, applied, wasReset, lastOp, ret>>

psVars == <<prefix_, values, prevLen, psRet, psStatus>>
daVars == <<n_, diff_, status, applied, wasReset, lastOp, ret>>

\* ---------------------------------------------------------------- bounds
MaxLen == 3        \* longest input of PrefixSum1D::build
MaxN == 3          \* largest size given to DiffArray1D::reset
MaxUpdates == 2    \* most range_add calls between two resets

Vals == {0 - 1, 2}        \* element values of type T
Garbage == Vals \cup {0}  \* what a read outside a vector may yield

RECURSIVE SeqsUpTo(_)
SeqsUpTo(k) ==
  IF k = 0 THEN {<<>>}
  ELSE LET shorter == SeqsUpTo(k - 1)
       IN shorter \cup {Append(s, x) : s \in {t \in shorter : Len(t) = k - 1}, x \in Vals}

\* ------------------------------------------------------- std::vector<T>
At(vec, i) == vec[i + 1]
InBounds(vec, i) == i < Len(vec)
\* vec[i] = x; a write outside the vector does not land in it
Store(vec, i, x) == IF InBounds(vec, i) THEN [vec EXCEPT ![i + 1] = x] ELSE vec
\* vec.assign(count, val)
assign(count, val) == [k \in 1..count |-> val]
\* vec.resize(count, val)
resize(vec, count, val) ==
  [k \in 1..count |-> IF k <= Len(vec) THEN vec[k] ELSE val]

\* ---------------------------------------------------------- PrefixSum1D
RECURSIVE PS_build_loop(_, _, _)
PS_build_loop(p, vs, i) ==
  IF i < Len(vs)
  THEN PS_build_loop(Store(p, i + 1, At(p, i) + At(vs, i)), vs, i + 1)
  ELSE p

\* build that only grows the table and never drops the entries of a longer
\* earlier build
PS_build_noshrink(p, vs) ==
  PS_build_loop(IF Len(p) > Len(vs) + 1 THEN p ELSE resize(p, Len(vs) + 1, 0), vs, 0)

PS_build(p, vs) == PS_build_loop(assign(Len(vs) + 1, 0), vs, 0)

\* range_sum that treats l as exclusive
PS_range_sum_shift(p, l, r) == At(p, r) - At(p, IF l < r THEN l + 1 ELSE l)

PS_range_sum(p, l, r) == At(p, r) - At(p, l)

PS_size(p) == IF Len(p) = 0 THEN 0 ELSE Len(p) - 1

NoCall == [op |-> "none"]

Build(vs) ==
  /\ psStatus = "ok"
  /\ prevLen' = PS_size(prefix_)
  /\ prefix_' = PS_build(prefix_, vs)
  /\ values' = vs
  /\ psRet' = NoCall
  /\ UNCHANGED <<psStatus, daVars>>

\* range_sum(l, r) called within its documented preconditions
\* (l <= r, r <= size())
RangeSum(l, r) ==
  /\ psStatus = "ok"
  /\ l <= r
  /\ r <= PS_size(prefix_)
  /\ IF InBounds(prefix_, l) /\ InBounds(prefix_, r)
     THEN /\ psRet' = [op |-> "range_sum", l |-> l, r |-> r,
                       val |-> PS_range_sum(prefix_, l, r)]
          /\ psStatus' = "ok"
     ELSE \/ /\ psStatus' = "crashed"
             /\ psRet' = [op |-> "range_sum", l |-> l, r |-> r, val |-> 0]
          \/ /\ psStatus' = "ok"
             /\ \E g \in Garbage :
                  psRet' = [op |-> "range_sum", l |-> l, r |-> r, val |-> g]
  /\ UNCHANGED <<prefix_, values, prevLen, daVars>>

\* ---------------------------------------------------------- DiffArray1D
\* reset that resizes and so keeps the entries of the earlier table
DA_reset_resize(d, n) == [n |-> n, diff |-> resize(d, n + 1, 0)]

DA_reset(d, n) == [n |-> n, diff |-> assign(n + 1, 0)]

\* range_add that leaves the sentinel alone ("diff[r] -= v (if r < n)")
DA_range_add_nosentinel(d, l, r, v) ==
  LET d1 == IF InBounds(d, l) THEN Store(d, l, At(d, l) + v) ELSE d
  IN IF r + 1 < Len(d1) THEN Store(d1, r, At(d1, r) - v) ELSE d1

\* range_add that validates l <= r and ignores a reversed interval
DA_range_add_checked(d, l, r, v) ==
  IF l > r THEN d
  ELSE LET d1 == IF InBounds(d, l) THEN Store(d, l, At(d, l) + v) ELSE d
       IN IF InBounds(d1, r) THEN Store(d1, r, At(d1, r) - v) ELSE d1

DA_range_add(d, l, r, v) ==
  LET d1 == IF InBounds(d, l) THEN Store(d, l, At(d, l) + v) ELSE d
  IN IF InBounds(d1, r) THEN Store(d1, r, At(d1, r) - v) ELSE d1

RECURSIVE DA_build_loop(_, _, _, _, _)
DA_build_loop(out, cur, n, d, i) ==
  IF i < n
  THEN LET c == cur + At(d, i)
       IN DA_build_loop(Store(out, i, c), c, n, d, i + 1)
  ELSE out

\* build that accumulates in place inside diff_ and returns a copy
DA_build_inplace(n, d) ==
  LET o == DA_build_loop(resize(<<>>, n, 0), 0, n, d, 0)
  IN [out |-> o, diff |-> [k \in 1..Len(d) |-> IF k <= n THEN o[k] ELSE d[k]]]

\* build that stores the running sum before adding diff_[i]
DA_build_late(n, d) ==
  [out |-> [k \in 1..n |-> IF k = 1 THEN 0
                           ELSE DA_build_loop(resize(<<>>, n, 0), 0, n, d, 0)[k - 1]],
   diff |-> d]

\* build() const: the returned vector, and diff_ as the call leaves it
DA_build(n, d) ==
  [out |-> DA_build_loop(resize(<<>>, n, 0), 0, n, d, 0), diff |-> d]

DA_size(n) == n

DA_diff(d) == d

Reset(n) ==
  /\ status = "ok"
  /\ n_' = DA_reset(diff_, n).n
  /\ diff_' = DA_reset(diff_, n).diff
  /\ applied' = <<>>
  /\ wasReset' = TRUE
  /\ lastOp' = [op |-> "reset", n |-> n, prev |-> Len(diff_),
                dirty |-> \E k \in 1..Len(diff_) : diff_[k] # 0]
  /\ ret' = <<>>
  /\ UNCHANGED <<status, psVars>>

\* the two unchecked element writes of range_add
DoRangeAdd(l, r, v) ==
  /\ status = "ok"
  /\ Len(applied) < MaxUpdates
  /\ IF InBounds(diff_, l) /\ InBounds(diff_, r)
     THEN /\ diff_' = DA_range_add(diff_, l, r, v)
          /\ status' = "ok"
     ELSE \/ /\ status' = "crashed"
             /\ diff_' = diff_
          \/ /\ status' = "ok"
             /\ diff_' = DA_range_add(diff_, l, r, v)
  /\ applied' = Append(applied, [l |-> l, r |-> r, v |-> v])
  /\ lastOp' = [op |-> "range_add", l |-> l, r |-> r, v |-> v]
  /\ ret' = <<>>
  /\ UNCHANGED <<n_, wasReset, psVars>>

\* range_add(l, r, delta) called within its documented preconditions
\* (l <= r, r <= size())
RangeAdd(l, r, v) ==
  /\ l <= r
  /\ r <= DA_size(n_)
  /\ DoRangeAdd(l, r, v)

\* range_add(l, r, delta) called outside its documented preconditions
RangeAddUnchecked(l, r, v) ==
  /\ l > r \/ r > DA_size(n_)
  /\ DoRangeAdd(l, r, v)

DABuild ==
  /\ status = "ok"
  /\ ret' = DA_build(n_, diff_).out
  /\ diff_' = DA_build(n_, diff_).diff
  /\ lastOp' = [op |-> "build"]
  /\ UNCHANGED <<n_, status, applied, wasReset, psVars>>

\* ------------------------------------------------------- specifications
\* both objects default-constructed
Init ==
  /\ prefix_ = <<>>
  /\ values = <<>>
  /\ prevLen = 0 - 1
  /\ psRet = NoCall
  /\ psStatus = "ok"
  /\ n_ = 0
  /\ diff_ = <<>>
  /\ status = "ok"
  /\ applied = <<>>
  /\ wasReset = FALSE
  /\ lastOp = [op |-> "init"]
  /\ ret = <<>>

NextPrefixSum ==
  \/ \E vs \in SeqsUpTo(MaxLen) : Build(vs)
  \/ \E l \in 0..MaxLen, r \in 0..MaxLen : RangeSum(l, r)

NextDiffArray ==
  \/ \E n \in 0..MaxN : Reset(n)
  \/ \E l \in 0..MaxN, r \in 0..MaxN, v \in Vals : RangeAdd(l, r, v)
  \/ DABuild

NextDiffArrayUnchecked ==
  \/ NextDiffArray
  \/ \E l \in 0..MaxN, r \in 0..MaxN, v \in Vals : RangeAddUnchecked(l, r, v)

\* callers of PrefixSum1D that keep to the documented preconditions
SpecPrefixSum == Init /\ [][NextPrefixSum]_vars
\* callers of DiffArray1D that keep to the documented preconditions
SpecDiffArray == Init /\ [][NextDiffArray]_vars
\* callers of DiffArray1D that may also pass intervals outside them
SpecDiffArrayUnchecked == Init /\ [][NextDiffArrayUnchecked]_vars

\* ------------------------------------------------- reference computations
RECURSIVE SumRange(_, _, _)
\* vs[l] + ... + vs[r-1], by direct summation
SumRange(vs, l, r) == IF l >= r THEN 0 ELSE At(vs, l) + SumRange(vs, l + 1, r)

RECURSIVE SumCovering(_, _)
\* the sum of v over the updates of ups whose interval [l, r) contains i
SumCovering(ups, i) ==
  IF ups = <<>> THEN 0
  ELSE LET u == Head(ups)
       IN (IF u.l <= i /\ i < u.r THEN u.v ELSE 0) + SumCovering(Tail(ups), i)

BruteForce(n, ups) == [k \in 1..n |-> SumCovering(ups, k - 1)]

Zeros(n) == [k \in 1..n |-> 0]

\* a range_add call has just been made
IsRangeAddStep == lastOp'.op = "range_add" /\ applied' # applied

\* what delta[l] += v; delta[r] -= v makes of entry i
Shifted(d, l, r, v, i) ==
  At(d, i) + (IF i = l THEN v ELSE 0) - (IF i = r THEN v ELSE 0)

\* ------------------------------------------------------------------ C1
\* C1: after reset(n) and any sequence of range_add calls with
\* 0 <= l <= r <= n, build() returns n elements, element i being the sum of
\* v over exactly the applied updates with l <= i < r.
C1_DiffArrayEquivalence ==
  (wasReset /\ status = "ok") =>
     /\ Len(DA_build(n_, diff_).out) = n_
     /\ DA_build(n_, diff_).out = BruteForce(n_, applied)
     /\ lastOp.op = "build" => ret = BruteForce(n_, applied)

\* build() after two overlapping updates, one reaching the end and one empty
\* or interior, with an element that received both
C1_Witness ==
  /\ wasReset /\ status = "ok" /\ lastOp.op = "build"
  /\ n_ = MaxN /\ Len(applied) = 2
  /\ applied[1].r = n_ /\ applied[1].l > 0
  /\ applied[2].l < applied[1].l /\ applied[2].r > applied[1].l /\ applied[2].r < n_
  /\ At(ret, applied[1].l) = applied[1].v + applied[2].v
  /\ At(ret, 0) = applied[2].v
  /\ At(ret, n_ - 1) = applied[1].v

\* ------------------------------------------------------------------ C2
\* C2: after build(values) in any prior state, size() is the length of
\* values and range_sum(l, r) is values[l] + ... + values[r-1] for all
\* 0 <= l <= r <= size(); nothing of an earlier build remains.
C2_PrefixBuildCorrect ==
  (prevLen >= 0) =>
     /\ psStatus = "ok"
     /\ PS_size(prefix_) = Len(values)
     /\ \A l \in 0..Len(values), r \in 0..Len(values) :
          l <= r => PS_range_sum(prefix_, l, r) = SumRange(values, l, r)
     /\ PS_range_sum(prefix_, 0, PS_size(prefix_)) = SumRange(values, 0, Len(values))
     /\ psRet.op = "range_sum" => psRet.val = SumRange(values, psRet.l, psRet.r)

\* a query answered after a rebuild from a longer sequence
C2_Witness ==
  /\ prevLen > Len(values) /\ Len(values) >= 2
  /\ psRet.op = "range_sum" /\ psRet.l > 0 /\ psRet.r = psRet.l + 1
  /\ psRet.val = At(values, psRet.l) /\ psRet.val # 0

\* ------------------------------------------------------------------ C3
\* C3: for every built sequence and all 0 <= a <= b <= c <= size(),
\* range_sum(a, c) = range_sum(a, b) + range_sum(b, c).
C3_Decomposition ==
  (prevLen >= 0) =>
     \A a \in 0..PS_size(prefix_), b \in 0..PS_size(prefix_), c \in 0..PS_size(prefix_) :
        (a <= b /\ b <= c) =>
           PS_range_sum(prefix_, a, c)
             = PS_range_sum(prefix_, a, b) + PS_range_sum(prefix_, b, c)

\* a built sequence of full length with a non-zero middle part, queried
C3_Witness ==
  /\ prevLen >= 0 /\ Len(values) = MaxLen
  /\ psRet.op = "range_sum" /\ psRet.l = 0 /\ psRet.r = MaxLen
  /\ PS_range_sum(prefix_, 0, 1) # 0
  /\ PS_range_sum(prefix_, 1, MaxLen) # 0
  /\ psRet.val = PS_range_sum(prefix_, 0, 1) + PS_range_sum(prefix_, 1, MaxLen)

\* ------------------------------------------------------------------ C4
\* C4: in every reachable state and for every i with 0 <= i <= size(),
\* range_sum(i, i) is a defined query that returns 0.
C4_EmptyRangeIdentity ==
  /\ psStatus = "ok"
  /\ (psRet.op = "range_sum" /\ psRet.l = psRet.r) => psRet.val = 0

\* ------------------------------------------------------------------ C5
\* C5: build() leaves n and every entry of delta unchanged; two build()
\* calls with nothing between them return the same sequence; a range_add
\* after a build() acts on later build() results as if that build() had
\* not been called.
C5_BuildPureRead ==
  [][lastOp'.op = "build" =>
       /\ n_' = n_
       /\ diff_' = diff_
       /\ lastOp.op = "build" => ret' = ret
       /\ \A l \in 0..n_, r \in 0..n_, v \in Vals :
            l <= r =>
              DA_build(n_', DA_range_add(diff_', l, r, v)).out
                = DA_build(n_, DA_range_add(diff_, l, r, v)).out]_vars

\* build() has returned a non-zero array from a non-zero delta table
C5_Witness ==
  /\ lastOp.op = "build" /\ wasReset /\ Len(applied) = 2 /\ n_ >= 2
  /\ At(diff_, 0) # 0 /\ At(diff_, 1) # 0
  /\ At(ret, 1) # At(diff_, 1)

\* ------------------------------------------------------------------ C6
\* C6: reset(n) in any prior state discards all prior updates: afterwards
\* size() = n, delta is n+1 zeros and build() returns n zeros.
C6_ResetDiscards ==
  lastOp.op = "reset" =>
     /\ DA_size(n_) = lastOp.n
     /\ DA_diff(diff_) = Zeros(lastOp.n + 1)
     /\ DA_build(n_, diff_).out = Zeros(lastOp.n)
     /\ applied = <<>>

\* reset to a smaller non-zero size of an instance that held updates
C6_Witness ==
  /\ lastOp.op = "reset" /\ lastOp.dirty
  /\ lastOp.n > 0 /\ lastOp.prev > lastOp.n + 1

\* ------------------------------------------------------------------ C7
\* C7 (as stated): a range_add whose interval violates 0 <= l <= r <= size()
\* is rejected with no observable mutation: n and every entry of delta are
\* the same after the call as before it.
C7_RejectedWithoutMutation ==
  [][(IsRangeAddStep /\ (lastOp'.l > lastOp'.r \/ lastOp'.r > n_)) =>
       (n_' = n_ /\ diff_' = diff_)]_vars

\* C7 (amended): a range_add with r < l <= size() is not rejected and not
\* clamped: it is applied unchecked, delta[l] is increased by v, delta[r] is
\* decreased by v, every other entry of delta and n are left unchanged.
C7_ReversedIntervalApplied ==
  [][(IsRangeAddStep /\ lastOp'.l > lastOp'.r /\ lastOp'.l <= n_) =>
       /\ status' = "ok"
       /\ n_' = n_
       /\ Len(diff_') = n_ + 1
       /\ \A i \in 0..n_ :
            At(diff_', i) = Shifted(diff_, lastOp'.l, lastOp'.r, lastOp'.v, i)]_vars

\* a reversed interval has been written into a fresh delta table
C7_Witness ==
  /\ lastOp.op = "range_add" /\ status = "ok" /\ Len(applied) = 1
  /\ lastOp.l > lastOp.r /\ lastOp.l <= n_
  /\ At(diff_, lastOp.l) = lastOp.v
  /\ At(diff_, lastOp.r) = 0 - lastOp.v

\* ------------------------------------------------------------------ C8
\* C8: range_add(l, r, v) with 0 <= l <= r <= n increases delta[l] by v and
\* decreases delta[r] by v (the sentinel delta[n] for r = n, no change for
\* l = r), leaves every other entry and n unchanged, and the sentinel never
\* influences build().
C8_RangeAddEffect ==
  [][(IsRangeAddStep /\ lastOp'.l <= lastOp'.r /\ lastOp'.r <= n_) =>
       /\ status' = "ok"
       /\ n_' = n_
       /\ Len(diff_) = n_ + 1
       /\ Len(diff_') = n_ + 1
       /\ \A i \in 0..n_ :
            At(diff_', i) = Shifted(diff_, lastOp'.l, lastOp'.r, lastOp'.v, i)
       /\ \A x \in Garbage :
            DA_build(n_', Store(diff_', n_, x)).out = DA_build(n_', diff_').out]_vars

\* ------------------------------------------------------------------ C9
\* C9: in every reachable state, a default-constructed instance included,
\* diff() has exactly size() + 1 entries.
C9_DiffHasSizePlusOne == Len(DA_diff(diff_)) = DA_size(n_) + 1

====
